---------------------------- MODULE Spec2Model ----------------------------
(***************************************************************************)
(* Model of s26738_2025-2.py: the NCBIRetriever class (search_taxid,       *)
(* fetch_records, filter_records, generate_csv, plot_length_chart) and the *)
(* interactive main() that drives it.                                      *)
(*                                                                         *)
(* Three specifications share the definitions of the methods:              *)
(*   Spec       - any sequence of search_taxid / fetch_records calls on    *)
(*                one retriever, against a remote service that may answer, *)
(*                fail, or answer with a malformed document;               *)
(*   SpecFilter - filter_records as a pure function, applied to drawn      *)
(*                inputs and then to its own output;                       *)
(*   SpecMain   - one run of main(), from the first prompt to its exit.    *)
(*                                                                         *)
(* Python values are modelled by what the code does with them:             *)
(*   - a str read from input() is a sequence of one-character strings, so  *)
(*     strip(), "in", isdigit() and int() are computed, not assumed;       *)
(*   - an object is a function from attribute names to values, and         *)
(*     hasattr(o, a) is  a \in DOMAIN o;                                   *)
(*   - None and int results carry a type tag (PyNone, PyInt);              *)
(*   - a SeqRecord carries id, seq and description; its Seq is kept as the *)
(*     number of residues, the only thing the code reads (len(rec.seq));   *)
(*   - a tuple built by filter_records is [type |-> "tuple", items |-> _]. *)
(***************************************************************************)
EXTENDS Integers, Sequences, FiniteSets, TLC

VARIABLES
    retriever,  \* the NCBIRetriever object: attribute name -> value
    origin,     \* session attribute -> number of the search_taxid call that set it
    searches,   \* number of search_taxid calls made so far on the retriever
    net,        \* remote requests and pauses issued (Spec: by the last call; SpecMain: by the run)
    last,       \* the last method call: its name, arguments, result, escaping exception
    pc,         \* main(): the statement the run is at
    loc,        \* main(): local variables, name -> value (unbound names are absent)
    files,      \* the working directory: file name -> content
    calls,      \* main(): the retriever methods called so far, in order, with arguments
    msg,        \* main(): the lines printed by the last step
    fargs,      \* SpecFilter: the arguments of the filter_records call
    depth       \* SpecFilter: how many times filter_records has been applied

vars == <<retriever, origin, searches, net, last, pc, loc, files, calls, msg, fargs, depth>>

-----------------------------------------------------------------------------
(* Bounds of the model.                                                    *)

\* longest list of SeqRecords drawn as an argument of filter_records
MaxRecs == 3
\* longest list of SeqRecords the remote service returns to one efetch
MaxFetched == 2
\* number of search_taxid calls made on one retriever
MaxSearches == 2

\* the cap of line 68: batch_size = min(max_records, 500)
BatchLimit == 500

-----------------------------------------------------------------------------
(* Python values.                                                          *)

PyNone == [type |-> "NoneType", v |-> 0]
PyInt(n) == [type |-> "int", v |-> n]

\* truth value of a count as tested by "if not count" (None and 0 are falsy)
Truthy(x) == x.type = "int" /\ x.v # 0

\* object attributes and local variables: setattr / assignment
SetAttr(obj, name, value) ==
    [a \in DOMAIN obj \cup {name} |-> IF a = name THEN value ELSE obj[a]]

HasAttr(obj, name) == name \in DOMAIN obj

Min(a, b) == IF a <= b THEN a ELSE b

\* ---- str, as a sequence of characters ----
DigitChars == <<"0", "1", "2", "3", "4", "5", "6", "7", "8", "9">>

IsDigitChar(c) == \E i \in 1..Len(DigitChars) : DigitChars[i] = c

DigitVal(c) == (CHOOSE i \in 1..Len(DigitChars) : DigitChars[i] = c) - 1

RECURSIVE LStrip(_)
LStrip(s) == IF s # <<>> /\ Head(s) = " " THEN LStrip(Tail(s)) ELSE s

RECURSIVE RStrip(_)
RStrip(s) ==
    IF s # <<>> /\ s[Len(s)] = " " THEN RStrip(SubSeq(s, 1, Len(s) - 1)) ELSE s

\* str.strip()
Strip(s) == RStrip(LStrip(s))

\* c in s
Contains(s, c) == \E i \in 1..Len(s) : s[i] = c

\* str.isdigit(): non-empty and every character a digit
IsDigit(s) == s # <<>> /\ \A i \in 1..Len(s) : IsDigitChar(s[i])

RECURSIVE DecimalValue(_)
DecimalValue(s) ==
    IF s = <<>> THEN 0
    ELSE 10 * DecimalValue(SubSeq(s, 1, Len(s) - 1)) + DigitVal(s[Len(s)])

\* int(s): surrounding blanks dropped, an optional sign, then decimal digits;
\* anything else raises ValueError
IntOf(s) ==
    LET t == Strip(s)
        signed == t # <<>> /\ Head(t) \in {"-", "+"}
        body == IF signed THEN Tail(t) ELSE t
    IN  IF IsDigit(body)
        THEN [raised |-> "none",
              v |-> IF signed /\ Head(t) = "-" THEN 0 - DecimalValue(body)
                    ELSE DecimalValue(body)]
        ELSE [raised |-> "ValueError", v |-> 0]

\* all sequences over S of length at most n
SeqsUpTo(S, n) == UNION {[1..k -> S] : k \in 0..n}

-----------------------------------------------------------------------------
(* Sequence records, as SeqIO.parse yields them.                           *)

SeqRecord(id, n, description) ==
    [type |-> "SeqRecord", id |-> id, seq |-> [type |-> "Seq", length |-> n],
     description |-> description]

\* len(rec.seq)
PyLen(seq) == seq.length

Tuple3(a, b, c) == [type |-> "tuple", items |-> <<a, b, c>>]

\* the records of the model: four lengths around the bounds, one length twice,
\* and an empty sequence
RecordUniverse ==
    { SeqRecord("AB0001", 50, "short"),
      SeqRecord("AB0002", 150, "inside"),
      SeqRecord("AB0003", 200, "edge"),
      SeqRecord("AB0004", 250, "long"),
      SeqRecord("AB0005", 150, "inside twin"),
      SeqRecord("AB0006", 0, "empty") }

ExampleRecords ==
    << SeqRecord("AB0001", 50, "short"), SeqRecord("AB0002", 150, "inside"),
       SeqRecord("AB0003", 200, "edge"), SeqRecord("AB0004", 250, "long") >>

LengthBounds == {0, 100, 200, 251}

-----------------------------------------------------------------------------
(* NCBIRetriever.filter_records (lines 92-97).                             *)
(* The comprehension walks the list in order; for each element it first    *)
(* evaluates the condition, which reads rec.seq, and only then builds the  *)
(* tuple.  An element without a seq attribute (a tuple) raises             *)
(* AttributeError, and the exception leaves the method.                    *)

KeepsRecordStrictUpper(rec, min_len, max_len) ==
    min_len <= PyLen(rec.seq) /\ PyLen(rec.seq) < max_len

KeepsRecord(rec, min_len, max_len) ==
    min_len <= PyLen(rec.seq) /\ PyLen(rec.seq) <= max_len

\* line 95: the element the comprehension builds, (rec.id, len(rec.seq),
\* rec.description)
RowIsRecord(rec) == rec

Row(rec) == Tuple3(rec.id, PyLen(rec.seq), rec.description)

RECURSIVE FilterFrom(_, _, _, _)
FilterFrom(records, min_len, max_len, acc) ==
    IF records = <<>> THEN [raised |-> "none", ret |-> acc]
    ELSE LET rec == Head(records)
         IN  IF rec.type # "SeqRecord"
             THEN [raised |-> "AttributeError", ret |-> <<>>]
             ELSE FilterFrom(Tail(records), min_len, max_len,
                    IF KeepsRecord(rec, min_len, max_len)
                    THEN Append(acc, Row(rec))
                    ELSE acc)

filter_records(records, min_len, max_len) ==
    FilterFrom(records, min_len, max_len, <<>>)

-----------------------------------------------------------------------------
(* The remote service behind Bio.Entrez and SeqIO: what one call can give  *)
(* back.  An outcome with status "error" is a call that raises (network    *)
(* failure, HTTP error, unparsable document).                              *)

TaxIds == { <<"9", "6", "0", "6">>, <<"5", "6", "2">> }

OrganismOf(taxid) ==
    IF taxid = <<"9", "6", "0", "6">> THEN "Homo sapiens" ELSE "Escherichia coli"

\* Entrez.read(Entrez.efetch(db="taxonomy", ...)): raises, or a list of taxa
\* (empty for an unknown identifier)
TaxonomyOutcomes(taxid) ==
    { [status |-> "error", records |-> <<>>],
      [status |-> "ok", records |-> <<>>],
      [status |-> "ok", records |-> << [ScientificName |-> OrganismOf(taxid)] >>] }

WebEnvs == {"MCID_a", "MCID_b"}
QueryKeys == {"1"}
CountTexts == { <<"0">>, <<"2">>, <<"n", "a">> }

\* a dictionary with one key, or none
Entry(key, value, present) ==
    IF present THEN [k \in {key} |-> value] ELSE [k \in {} |-> value]

\* Entrez.read(Entrez.esearch(...)): raises, or a dictionary that holds any
\* of the keys Count, WebEnv, QueryKey (a malformed answer lacks some)
SearchOutcomes ==
    { [status |-> "error", results |-> Entry("Count", <<>>, FALSE)] }
    \cup
    { [status |-> "ok",
       results |-> Entry("Count", c, hc) @@ Entry("WebEnv", w, hw)
                   @@ Entry("QueryKey", q, hq)] :
        c \in CountTexts, hc \in BOOLEAN, w \in WebEnvs, hw \in BOOLEAN,
        q \in QueryKeys, hq \in BOOLEAN }

\* the records the remote service holds for a search
FetchedUniverse ==
    { SeqRecord("AB0001", 50, "short"), SeqRecord("AB0002", 150, "inside") }

\* list(SeqIO.parse(Entrez.efetch(db="nucleotide", ...))): the request raises
\* ("error"), the parser raises after it has read some records
\* ("parse_error", with the records read so far), or at most retmax records
\* come back ("ok")
FetchOutcomes(retmax) ==
    { [status |-> "error", records |-> <<>>] }
    \cup
    { [status |-> st, records |-> r] :
        st \in {"ok", "parse_error"},
        r \in {x \in SeqsUpTo(FetchedUniverse, MaxFetched) : Len(x) <= retmax} }

\* ---- the requests a call issues ----
TaxonomyRequest(taxid) ==
    [fn |-> "Entrez.efetch", db |-> "taxonomy", id |-> taxid, retmode |-> "xml"]

\* line 36: f"txid{taxid}[Organism]"
SearchTerm(taxid) == <<"txid">> \o taxid \o <<"[Organism]">>

SearchRequest(taxid) ==
    [fn |-> "Entrez.esearch", db |-> "nucleotide", term |-> SearchTerm(taxid),
     usehistory |-> "y", retmax |-> 10000]

Pause == [fn |-> "time.sleep", seconds |-> "0.4"]

FetchRequest(start, batch_size, webenv, query_key) ==
    [fn |-> "Entrez.efetch", db |-> "nucleotide", rettype |-> "gb",
     retmode |-> "text", retstart |-> start, retmax |-> batch_size,
     webenv |-> webenv, query_key |-> query_key]

IsFetchRequest(r) == r.fn = "Entrez.efetch" /\ r.db = "nucleotide"

-----------------------------------------------------------------------------
(* NCBIRetriever.__init__ (lines 15-23).                                   *)

SessionAttrs == {"webenv", "query_key", "count", "taxid", "organism"}

NewRetriever(email, api_key) == [email |-> email, api_key |-> api_key]

NoOrigin == [a \in {} |-> 0]

-----------------------------------------------------------------------------
(* NCBIRetriever.search_taxid (lines 25-58).                               *)
(* self: the object; org: which call set each session attribute; n: the    *)
(* number of this call; tax, res: what the two remote calls give back.     *)
(* The result holds the object after the call, the value returned, the     *)
(* requests issued, the lines printed and the exception caught (if any).   *)

\* the except branch (lines 56-58): print, return None
SearchCaught(self, org, reqs, exc) ==
    [self |-> self, origin |-> org, ret |-> PyNone, raised |-> "none",
     reqs |-> reqs, out |-> <<"Searching", "Error searching TaxID">>,
     caught |-> exc]

\* lines 48-52, the assignments in the order the code makes them; the
\* right-hand side of each is evaluated before its attribute is set
StoreSession(self, org, n, taxid, organism_name, count, results, reqs) ==
    IF ~HasAttr(results, "WebEnv")
    THEN SearchCaught(self, org, reqs, "KeyError")
    ELSE
      LET self1 == SetAttr(self, "webenv", results["WebEnv"])
          org1 == SetAttr(org, "webenv", n)
      IN  IF ~HasAttr(results, "QueryKey")
          THEN SearchCaught(self1, org1, reqs, "KeyError")
          ELSE
            LET self5 ==
                  SetAttr(SetAttr(SetAttr(SetAttr(self1,
                    "query_key", results["QueryKey"]),
                    "count", count),
                    "taxid", taxid),
                    "organism", organism_name)
                org5 == [a \in SessionAttrs |-> n]
            IN  [self |-> self5, origin |-> org5, ret |-> PyInt(count),
                 raised |-> "none", reqs |-> reqs,
                 out |-> <<"Searching", "Organism", "Found records">>,
                 caught |-> "none"]

\* lines 41-43: no record matches; nothing is stored
SearchNoMatchStores(self, org, n, taxid, organism_name, results, reqs) ==
    LET stored == StoreSession(self, org, n, taxid, organism_name, 0, results, reqs)
    IN  [stored EXCEPT !.ret = PyNone,
                       !.out = <<"Searching", "Organism", "No records found for">>]

SearchNoMatch(self, org, n, taxid, organism_name, results, reqs) ==
    [self |-> self, origin |-> org, ret |-> PyNone, raised |-> "none",
     reqs |-> reqs, out |-> <<"Searching", "Organism", "No records found for">>,
     caught |-> "none"]

search_taxid(self, org, n, taxid, tax, res) ==
    LET reqs1 == << TaxonomyRequest(taxid) >>
        reqs2 == << TaxonomyRequest(taxid), SearchRequest(taxid) >>
    IN  IF tax.status = "error"
        THEN SearchCaught(self, org, reqs1, "IOError")
        ELSE IF tax.records = <<>>
        THEN SearchCaught(self, org, reqs1, "IndexError")
        ELSE
          LET organism_name == tax.records[1]["ScientificName"]
          IN  IF res.status = "error"
              THEN SearchCaught(self, org, reqs2, "IOError")
              ELSE IF ~HasAttr(res.results, "Count")
              THEN SearchCaught(self, org, reqs2, "KeyError")
              ELSE
                LET parsed == IntOf(res.results["Count"])
                IN  IF parsed.raised # "none"
                    THEN SearchCaught(self, org, reqs2, parsed.raised)
                    ELSE IF parsed.v = 0
                    THEN SearchNoMatch(self, org, n, taxid, organism_name,
                                       res.results, reqs2)
                    ELSE StoreSession(self, org, n, taxid, organism_name,
                                      parsed.v, res.results, reqs2)

-----------------------------------------------------------------------------
(* NCBIRetriever.fetch_records (lines 60-90).                              *)

\* lines 62-64
FetchGuardMissing(self) ==
    FALSE

FetchGuard(self) ==
    ~HasAttr(self, "webenv") \/ ~HasAttr(self, "query_key")

\* line 68
BatchSizeUncapped(max_records) == max_records

BatchSize(max_records) == Min(max_records, BatchLimit)

\* the requests of lines 71-81, in order
FetchRequests(self, start, max_records) ==
    << Pause,
       FetchRequest(start, BatchSize(max_records), self["webenv"], self["query_key"]) >>

\* lines 88-90 return a fresh empty list; the records parsed before the
\* failure are dropped with the generator
FetchFailed(got) == <<>>

fetch_records(self, start, max_records, got) ==
    IF FetchGuard(self)
    THEN [ret |-> <<>>, raised |-> "none", reqs |-> <<>>,
          out |-> <<"No search results to fetch">>, caught |-> "none"]
    ELSE IF ~HasAttr(self, "webenv") \/ ~HasAttr(self, "query_key")
    THEN \* self.webenv / self.query_key raise inside the try, after the pause
         [ret |-> <<>>, raised |-> "none", reqs |-> << Pause >>,
          out |-> <<"Error fetching records">>, caught |-> "AttributeError"]
    ELSE IF got.status # "ok"
    THEN [ret |-> FetchFailed(got), raised |-> "none",
          reqs |-> FetchRequests(self, start, max_records),
          out |-> <<"Error fetching records">>,
          caught |-> IF got.status = "error" THEN "IOError" ELSE "ValueError"]
    ELSE [ret |-> got.records, raised |-> "none",
          reqs |-> FetchRequests(self, start, max_records),
          out |-> <<"Fetched records">>, caught |-> "none"]

-----------------------------------------------------------------------------
(* Spec: calls of search_taxid and fetch_records on one retriever, in any  *)
(* order, with any arguments and any answer of the remote service.         *)

Email == <<"a", "@", "b", ".", "c">>

Starts == {0, 500}
MaxRecordsArgs == {1, 500, 501}

\* main() outside SpecMain, and the filter call outside SpecFilter
MainIdle ==
    /\ pc = "idle" /\ loc = [n \in {} |-> 0] /\ files = [f \in {} |-> 0]
    /\ calls = <<>> /\ msg = <<>>

FilterIdle == fargs = <<>> /\ depth = 0

Init ==
    /\ retriever = NewRetriever(Email, <<>>)
    /\ origin = NoOrigin
    /\ searches = 0
    /\ net = <<>>
    /\ last = [op |-> "__init__", args |-> <<>>, ret |-> PyNone,
               raised |-> "none", caught |-> "none", remote |-> "none"]
    /\ MainIdle
    /\ FilterIdle

SearchTaxid ==
    /\ searches < MaxSearches
    /\ \E taxid \in TaxIds, res \in SearchOutcomes :
       \E tax \in TaxonomyOutcomes(taxid) :
         LET r == search_taxid(retriever, origin, searches + 1, taxid, tax, res)
         IN  /\ retriever' = r.self
             /\ origin' = r.origin
             /\ searches' = searches + 1
             /\ net' = r.reqs
             /\ last' = [op |-> "search_taxid", args |-> <<taxid>>, ret |-> r.ret,
                         raised |-> r.raised, caught |-> r.caught,
                         remote |-> res.status]
    /\ UNCHANGED <<pc, loc, files, calls, msg, fargs, depth>>

FetchRecords ==
    /\ \E start \in Starts, max_records \in MaxRecordsArgs :
       \E got \in FetchOutcomes(Min(max_records, BatchLimit)) :
         LET r == fetch_records(retriever, start, max_records, got)
         IN  /\ net' = r.reqs
             /\ last' = [op |-> "fetch_records", args |-> <<start, max_records>>,
                         ret |-> r.ret, raised |-> r.raised, caught |-> r.caught,
                         remote |-> got.status]
    /\ UNCHANGED <<retriever, origin, searches, pc, loc, files, calls, msg, fargs, depth>>

Next == SearchTaxid \/ FetchRecords

Spec == Init /\ [][Next]_vars

-----------------------------------------------------------------------------
(* SpecFilter: filter_records on drawn arguments, then on its own output   *)
(* with the same bounds.                                                   *)

FilterInputs ==
    SeqsUpTo(RecordUniverse, MaxRecs) \cup {ExampleRecords}

InitFilter ==
    /\ retriever = NewRetriever(Email, <<>>)
    /\ origin = NoOrigin
    /\ searches = 0
    /\ net = <<>>
    /\ last = [op |-> "__init__", args |-> <<>>, ret |-> PyNone,
               raised |-> "none", caught |-> "none", remote |-> "none"]
    /\ MainIdle
    /\ depth = 0
    /\ \E records \in FilterInputs, min_len \in LengthBounds, max_len \in LengthBounds :
         fargs = [records |-> records, min_len |-> min_len, max_len |-> max_len]

FilterResult(a) ==
    LET r == filter_records(a.records, a.min_len, a.max_len)
    IN  [op |-> "filter_records", args |-> <<a.min_len, a.max_len>>, ret |-> r.ret,
         raised |-> r.raised, caught |-> "none", remote |-> "none"]

\* filtered = retriever.filter_records(records, min_len, max_len)
FilterCall ==
    /\ depth = 0
    /\ last' = FilterResult(fargs)
    /\ depth' = 1
    /\ UNCHANGED <<retriever, origin, searches, net, pc, loc, files, calls, msg, fargs>>

\* retriever.filter_records(filtered, min_len, max_len)
FilterAgain ==
    /\ depth = 1
    /\ last.raised = "none"
    /\ fargs' = [fargs EXCEPT !.records = last.ret]
    /\ last' = FilterResult([fargs EXCEPT !.records = last.ret])
    /\ depth' = 2
    /\ UNCHANGED <<retriever, origin, searches, net, pc, loc, files, calls, msg>>

NextFilter == FilterCall \/ FilterAgain

SpecFilter == InitFilter /\ [][NextFilter]_vars

-----------------------------------------------------------------------------
(* NCBIRetriever.generate_csv (lines 99-105) and plot_length_chart         *)
(* (lines 107-118).  Neither has a try block: an exception raised by       *)
(* self.taxid, self.organism, to_csv or savefig leaves the method.  io is  *)
(* what the file write does: "ok", "OSError" (nothing written) or          *)
(* "OSError partial" (the write fails after the file was created).         *)

IoOutcomes == {"ok", "OSError", "OSError partial"}

CsvColumns == <<"Accession", "Length", "Description">>

\* pd.DataFrame(filtered_data, columns=[...]): one row per tuple, in order
DataFrame(filtered_data) ==
    [columns |-> CsvColumns,
     rows |-> [i \in 1..Len(filtered_data) |-> filtered_data[i].items]]

CsvName(taxid) == <<"taxid_">> \o taxid \o <<"_report.csv">>

PlotName(taxid) == <<"taxid_">> \o taxid \o <<"_plot.png">>

WriteFile(fs, name, content, io) ==
    IF io = "ok" THEN SetAttr(fs, name, content)
    ELSE IF io = "OSError partial" THEN SetAttr(fs, name, [partial |-> TRUE])
    ELSE fs

generate_csv(self, fs, filtered_data, io) ==
    IF ~HasAttr(self, "taxid")
    THEN [ret |-> PyNone, raised |-> "AttributeError", files |-> fs]
    ELSE LET df == DataFrame(filtered_data)
         IN  [ret |-> IF io = "ok" THEN df ELSE PyNone,
              raised |-> IF io = "ok" THEN "none" ELSE "OSError",
              files |-> WriteFile(fs, CsvName(self["taxid"]),
                                  [header |-> df.columns, lines |-> df.rows], io)]

\* df.sort_values("Length", ascending=False), as the lengths plotted
RECURSIVE InsertDesc(_, _)
InsertDesc(sorted, n) ==
    IF sorted = <<>> THEN << n >>
    ELSE IF n > Head(sorted) THEN << n >> \o sorted
    ELSE << Head(sorted) >> \o InsertDesc(Tail(sorted), n)

RECURSIVE LengthsDesc(_)
LengthsDesc(rows) ==
    IF rows = <<>> THEN <<>>
    ELSE InsertDesc(LengthsDesc(Tail(rows)), Head(rows)[2])

plot_length_chart(self, fs, df, io) ==
    IF ~HasAttr(self, "taxid") \/ ~HasAttr(self, "organism")
    THEN [ret |-> PyNone, raised |-> "AttributeError", files |-> fs]
    ELSE [ret |-> PyNone,
          raised |-> IF io = "ok" THEN "none" ELSE "OSError",
          files |-> WriteFile(fs, PlotName(self["taxid"]),
                      [title |-> <<"Sequence Lengths for TaxID", self["taxid"],
                                   self["organism"]>>,
                       ylabel |-> "Sequence Length",
                       y |-> LengthsDesc(df.rows)], io)]

-----------------------------------------------------------------------------
(* SpecMain: one run of main() (lines 120-172).  pc names the statement    *)
(* the run is at; "exit" is a return of main, "crash" an exception that    *)
(* left main unhandled.  calls records each retriever method as it is      *)
(* called; net collects the requests of the whole run.                     *)

EmailInputs ==
    { <<" ", "a", "@", "b", ".", "c", " ">>, <<"a", "b", "c">>,
      <<"a", "@", "b">>, <<"a", ".", "c">> }

ApiKeyInputs == { <<>>, <<"k", "1">> }

TaxidInputs ==
    { <<"9", "6", "0", "6">>, <<" ", "5", "6", "2">>, <<"9", "6", "a", "6">>,
      <<>>, <<"-", "5">> }

LengthInputs ==
    { <<"0">>, <<"1", "0">>, <<"5", "0">>, <<"1", "0", "0">>, <<"-", "1">>,
      <<"x">> }

NoObject == [a \in {} |-> 0]

InitMain ==
    /\ retriever = NoObject
    /\ origin = NoOrigin
    /\ searches = 0
    /\ net = <<>>
    /\ last = [op |-> "none", args |-> <<>>, ret |-> PyNone,
               raised |-> "none", caught |-> "none", remote |-> "none"]
    /\ pc = "email"
    /\ loc = [n \in {} |-> 0]
    /\ files = [f \in {} |-> 0]
    /\ calls = <<>>
    /\ msg = <<>>
    /\ FilterIdle

\* lines 124, 136: the tests of the two prompt loops
ValidEmail(email) == Contains(email, "@") /\ Contains(email, ".")

ValidTaxid(taxid) == IsDigit(taxid)

\* lines 145-150: the message printed for a parsed pair, "" when it is accepted
LengthPairNoOrderTest(min_len, max_len) ==
    IF min_len <= 0 \/ max_len <= 0 THEN "Lengths must be positive integers."
    ELSE ""

LengthPairMessage(min_len, max_len) ==
    IF min_len <= 0 \/ max_len <= 0 THEN "Lengths must be positive integers."
    ELSE IF min_len > max_len
    THEN "Minimum length cannot be greater than maximum length."
    ELSE ""

\* lines 122-126
InputEmail ==
    /\ pc = "email"
    /\ \E typed \in EmailInputs :
         LET email == Strip(typed)
         IN  /\ loc' = SetAttr(loc, "email", email)
             /\ IF ValidEmail(email)
                THEN pc' = "api_key" /\ msg' = <<>>
                ELSE pc' = "email" /\ msg' = <<"Invalid email format. Please enter a valid email.">>
    /\ UNCHANGED <<retriever, origin, searches, net, last, files, calls, fargs, depth>>

\* lines 128-131
InputApiKey ==
    /\ pc = "api_key"
    /\ \E typed \in ApiKeyInputs :
         /\ loc' = SetAttr(loc, "api_key", Strip(typed))
         /\ retriever' = NewRetriever(loc["email"], Strip(typed))
    /\ pc' = "taxid"
    /\ msg' = <<>>
    /\ UNCHANGED <<origin, searches, net, last, files, calls, fargs, depth>>

\* lines 134-138
InputTaxid ==
    /\ pc = "taxid"
    /\ \E typed \in TaxidInputs :
         LET taxid == Strip(typed)
         IN  /\ loc' = SetAttr(loc, "taxid", taxid)
             /\ IF ValidTaxid(taxid)
                THEN pc' = "min_len" /\ msg' = <<>>
                ELSE pc' = "taxid" /\ msg' = <<"TaxID must be a number. Try again.">>
    /\ UNCHANGED <<retriever, origin, searches, net, last, files, calls, fargs, depth>>

\* line 143, and line 151-152 when int() raises
InputMinLen ==
    /\ pc = "min_len"
    /\ \E typed \in LengthInputs :
         LET parsed == IntOf(typed)
         IN  IF parsed.raised = "none"
             THEN /\ loc' = SetAttr(loc, "min_len", parsed.v)
                  /\ pc' = "max_len"
                  /\ msg' = <<>>
             ELSE /\ loc' = loc
                  /\ pc' = "min_len"
                  /\ msg' = <<"Please enter valid integer values for lengths.">>
    /\ UNCHANGED <<retriever, origin, searches, net, last, files, calls, fargs, depth>>

\* lines 144-152
InputMaxLen ==
    /\ pc = "max_len"
    /\ \E typed \in LengthInputs :
         LET parsed == IntOf(typed)
         IN  IF parsed.raised = "none"
             THEN LET m == LengthPairMessage(loc["min_len"], parsed.v)
                  IN  /\ loc' = SetAttr(loc, "max_len", parsed.v)
                      /\ pc' = IF m = "" THEN "search" ELSE "min_len"
                      /\ msg' = IF m = "" THEN <<>> ELSE << m >>
             ELSE /\ loc' = loc
                  /\ pc' = "min_len"
                  /\ msg' = <<"Please enter valid integer values for lengths.">>
    /\ UNCHANGED <<retriever, origin, searches, net, last, files, calls, fargs, depth>>

\* line 157: what follows the search
AfterSearchAlwaysFetch(count) == "fetch"

AfterSearch(count) == IF ~Truthy(count) THEN "exit" ELSE "fetch"

\* lines 155-159
MainSearch ==
    /\ pc = "search"
    /\ \E res \in SearchOutcomes :
       \E tax \in TaxonomyOutcomes(loc["taxid"]) :
         LET r == search_taxid(retriever, origin, searches + 1, loc["taxid"], tax, res)
         IN  /\ retriever' = r.self
             /\ origin' = r.origin
             /\ searches' = searches + 1
             /\ net' = net \o r.reqs
             /\ last' = [op |-> "search_taxid", args |-> <<loc["taxid"]>>,
                         ret |-> r.ret, raised |-> r.raised, caught |-> r.caught,
                         remote |-> res.status]
             /\ loc' = SetAttr(loc, "count", r.ret)
             /\ pc' = AfterSearch(r.ret)
             /\ msg' = IF AfterSearch(r.ret) = "exit"
                       THEN r.out \o <<"No records found. Exiting.">> ELSE r.out
    /\ calls' = Append(calls, [fn |-> "search_taxid", args |-> <<loc["taxid"]>>])
    /\ UNCHANGED <<files, fargs, depth>>

\* line 162
MainFetch ==
    /\ pc = "fetch"
    /\ \E got \in FetchOutcomes(Min(500, BatchLimit)) :
         LET r == fetch_records(retriever, 0, 500, got)
         IN  /\ net' = net \o r.reqs
             /\ last' = [op |-> "fetch_records", args |-> <<0, 500>>, ret |-> r.ret,
                         raised |-> r.raised, caught |-> r.caught,
                         remote |-> got.status]
             /\ loc' = SetAttr(loc, "records", r.ret)
             /\ msg' = r.out
    /\ pc' = "filter"
    /\ calls' = Append(calls, [fn |-> "fetch_records", args |-> <<0, 500>>])
    /\ UNCHANGED <<retriever, origin, searches, files, fargs, depth>>

\* line 166: what follows the filter
AfterFilterAlwaysReport(filtered) == "csv"

AfterFilter(filtered) == IF filtered = <<>> THEN "exit" ELSE "csv"

\* lines 165-168
MainFilter ==
    /\ pc = "filter"
    /\ LET r == filter_records(loc["records"], loc["min_len"], loc["max_len"])
       IN  /\ last' = [op |-> "filter_records",
                       args |-> <<loc["min_len"], loc["max_len"]>>, ret |-> r.ret,
                       raised |-> r.raised, caught |-> "none", remote |-> "none"]
           /\ IF r.raised # "none"
              THEN loc' = loc /\ pc' = "crash" /\ msg' = << r.raised >>
              ELSE /\ loc' = SetAttr(loc, "filtered", r.ret)
                   /\ pc' = AfterFilter(r.ret)
                   /\ msg' = IF AfterFilter(r.ret) = "exit"
                             THEN <<"No records matched the length criteria.">>
                             ELSE <<>>
    /\ calls' = Append(calls, [fn |-> "filter_records",
                               args |-> <<loc["min_len"], loc["max_len"]>>])
    /\ UNCHANGED <<retriever, origin, searches, net, files, fargs, depth>>

\* line 171
MainCsv ==
    /\ pc = "csv"
    /\ \E io \in IoOutcomes :
         LET r == generate_csv(retriever, files, loc["filtered"], io)
         IN  /\ files' = r.files
             /\ last' = [op |-> "generate_csv", args |-> <<>>, ret |-> r.ret,
                         raised |-> r.raised, caught |-> "none", remote |-> io]
             /\ IF r.raised # "none"
                THEN loc' = loc /\ pc' = "crash" /\ msg' = << r.raised >>
                ELSE /\ loc' = SetAttr(loc, "df", r.ret)
                     /\ pc' = "plot"
                     /\ msg' = <<"Saved CSV report to">>
    /\ calls' = Append(calls, [fn |-> "generate_csv", args |-> <<>>])
    /\ UNCHANGED <<retriever, origin, searches, net, fargs, depth>>

\* line 172
MainPlot ==
    /\ pc = "plot"
    /\ \E io \in IoOutcomes :
         LET r == plot_length_chart(retriever, files, loc["df"], io)
         IN  /\ files' = r.files
             /\ last' = [op |-> "plot_length_chart", args |-> <<>>, ret |-> r.ret,
                         raised |-> r.raised, caught |-> "none", remote |-> io]
             /\ IF r.raised # "none"
                THEN pc' = "crash" /\ msg' = << r.raised >>
                ELSE pc' = "exit" /\ msg' = <<"Saved plot to">>
    /\ calls' = Append(calls, [fn |-> "plot_length_chart", args |-> <<>>])
    /\ UNCHANGED <<retriever, origin, searches, net, loc, fargs, depth>>

NextMain ==
    \/ InputEmail \/ InputApiKey \/ InputTaxid \/ InputMinLen \/ InputMaxLen
    \/ MainSearch \/ MainFetch \/ MainFilter \/ MainCsv \/ MainPlot

SpecMain == InitMain /\ [][NextMain]_vars

-----------------------------------------------------------------------------
(* Properties of filter_records, under SpecFilter.                         *)

\* the indices of the records whose length lies in [lo, hi]
KeptIndices(records, lo, hi) ==
    {i \in 1..Len(records) :
        lo <= records[i].seq.length /\ records[i].seq.length <= hi}

\* the k-th of them, counting from the front of the list
NthKept(records, lo, hi, k) ==
    CHOOSE i \in KeptIndices(records, lo, hi) :
        Cardinality({j \in KeptIndices(records, lo, hi) : j <= i}) = k

ExpectedRow(rec) ==
    [type |-> "tuple", items |-> <<rec.id, rec.seq.length, rec.description>>]

\* C1: filter_records returns one row (id, length, description) for exactly
\* the records with min_len <= length <= max_len, both bounds inclusive, in
\* the order of the input, and nothing else; lengths [50, 150, 200, 250]
\* with bounds 100..200 give the rows of length 150 and 200, in that order.
C1_FilterExactSubsequence ==
    depth = 1 =>
      /\ last.raised = "none"
      /\ Len(last.ret) =
           Cardinality(KeptIndices(fargs.records, fargs.min_len, fargs.max_len))
      /\ \A k \in 1..Len(last.ret) :
           last.ret[k] =
             ExpectedRow(fargs.records[
               NthKept(fargs.records, fargs.min_len, fargs.max_len, k)])
      /\ (fargs.records = ExampleRecords /\ fargs.min_len = 100 /\ fargs.max_len = 200
            => last.ret = << ExpectedRow(ExampleRecords[2]),
                             ExpectedRow(ExampleRecords[3]) >>)

C1_Witness ==
    /\ depth = 1
    /\ fargs.records = ExampleRecords /\ fargs.min_len = 100 /\ fargs.max_len = 200
    /\ Len(last.ret) = 2
    /\ last.ret[1].items[2] = 150 /\ last.ret[2].items[2] = 200

\* C2 as stated: applying filter_records with the same bounds to the output
\* of filter_records succeeds and returns that output unchanged.
C2_Idempotent ==
    depth = 2 => last.raised = "none" /\ last.ret = fargs.records

\* C2 amended: the output of filter_records is a list of tuples whose
\* second item lies within the bounds; passed back to filter_records, an
\* empty output comes back empty and a non-empty one raises AttributeError
\* (a tuple has no seq), so nothing is returned.
C2_ReapplyEmptyOrRaises ==
    /\ depth = 1 =>
         \A k \in 1..Len(last.ret) :
           /\ last.ret[k].type = "tuple"
           /\ fargs.min_len <= last.ret[k].items[2]
           /\ last.ret[k].items[2] <= fargs.max_len
    /\ depth = 2 =>
         IF fargs.records = <<>>
         THEN last.raised = "none" /\ last.ret = <<>>
         ELSE last.raised = "AttributeError"

C2_Witness ==
    /\ depth = 2
    /\ Len(fargs.records) = 2
    /\ last.raised = "AttributeError"

-----------------------------------------------------------------------------
(* Properties of the retriever, under Spec.                                *)

\* every way fetch_records can be called, with every answer of the service
FetchIsNoOp(self) ==
    \A start \in Starts, max_records \in MaxRecordsArgs :
      \A got \in FetchOutcomes(Min(max_records, 500)) :
        LET r == fetch_records(self, start, max_records, got)
        IN  r.ret = <<>> /\ r.raised = "none" /\ r.reqs = <<>>

\* C3: on a retriever on which search_taxid was never called, every
\* fetch_records call returns an empty sequence, raises nothing and issues
\* no network request (no pause, no efetch).
C3_FetchUnsearchedIsNoOp ==
    (last.op = "fetch_records" /\ searches = 0) =>
      /\ last.ret = <<>>
      /\ last.raised = "none"
      /\ net = <<>>

C3_Witness ==
    /\ last.op = "fetch_records"
    /\ searches = 0
    /\ last.args = <<500, 501>>
    /\ last.remote = "ok"

C6_FetchOneCappedBatch ==
    (last.op = "fetch_records" /\ HasAttr(retriever, "webenv")
        /\ HasAttr(retriever, "query_key")) =>
      LET sent == SelectSeq(net, IsFetchRequest)
      IN  /\ Len(sent) <= 1
          /\ \A i \in 1..Len(sent) :
               /\ sent[i].retmax = Min(last.args[2], 500)
               /\ sent[i].retmax <= 500
               /\ sent[i].retstart = last.args[1]
          /\ last.raised = "none"
          /\ last.remote # "ok" => last.ret = <<>>

C6_Witness ==
    /\ last.op = "fetch_records"
    /\ HasAttr(retriever, "webenv") /\ HasAttr(retriever, "query_key")
    /\ last.args[2] = 501
    /\ Len(net) = 2
    /\ net[2].retmax = 500
    /\ last.remote = "parse_error"

\* C10: after any sequence of search_taxid calls the five session fields
\* are all unset or all set, and when set they were all stored by the same
\* call.
C10_SessionAllOrNothing ==
    LET set == SessionAttrs \cap DOMAIN retriever
    IN  /\ set = {} \/ set = SessionAttrs
        /\ \A a \in set, b \in set : origin[a] = origin[b]

-----------------------------------------------------------------------------
(* Properties of a run of main(), under SpecMain.                          *)

CallNames == [i \in 1..Len(calls) |-> calls[i].fn]

IsPrefixOf(s, t) == Len(s) <= Len(t) /\ \A i \in 1..Len(s) : s[i] = t[i]

\* C4: if search_taxid returns a zero or None count the run ends without
\* calling fetch_records, filter_records, generate_csv or plot_length_chart;
\* the steps that run do so in the order search, fetch (once, start=0,
\* max_records=500), filter, generate_csv, plot_length_chart.
C4_PipelineOrder ==
    /\ IsPrefixOf(CallNames, <<"search_taxid", "fetch_records", "filter_records",
                               "generate_csv", "plot_length_chart">>)
    /\ Len(calls) >= 2 => calls[2].args = <<0, 500>>
    /\ Len(calls) >= 1 => HasAttr(loc, "count")
    /\ (HasAttr(loc, "count") /\ ~Truthy(loc["count"])) =>
         /\ pc = "exit"
         /\ CallNames = <<"search_taxid">>
         /\ SelectSeq(net, IsFetchRequest) = <<>>
         /\ DOMAIN files = {}

C4_Witness ==
    /\ pc = "exit"
    /\ HasAttr(loc, "count")
    /\ loc["count"] = PyNone
    /\ last.caught = "none"
    /\ Len(net) = 2

ValidLengthPair(lo, hi) == lo > 0 /\ hi > 0 /\ lo <= hi

LengthRejections ==
    { <<"Lengths must be positive integers.">>,
      <<"Minimum length cannot be greater than maximum length.">>,
      <<"Please enter valid integer values for lengths.">> }

\* C7: no remote call is issued before the length loop has accepted a pair
\* with min_len > 0, max_len > 0 and min_len <= max_len; every rejected pair
\* sends the run back to the prompt for min_len; (0, 100), (100, 50) and
\* (-1, 10) are rejected and (50, 100) is accepted; so the pair is valid at
\* every remote call and at the filter step.
C7_LengthsValidBeforeRemote ==
    /\ pc \in {"email", "api_key", "taxid", "min_len", "max_len"} =>
         net = <<>> /\ calls = <<>>
    /\ pc \in {"search", "fetch", "filter", "csv", "plot"} \/ net # <<>> \/ calls # <<>> =>
         /\ HasAttr(loc, "min_len") /\ HasAttr(loc, "max_len")
         /\ ValidLengthPair(loc["min_len"], loc["max_len"])
    /\ msg \in LengthRejections => pc = "min_len"
    /\ msg = <<"Lengths must be positive integers.">> =>
         loc["min_len"] <= 0 \/ loc["max_len"] <= 0
    /\ msg = <<"Minimum length cannot be greater than maximum length.">> =>
         loc["min_len"] > loc["max_len"]
    /\ LengthPairMessage(0, 100) # ""
    /\ LengthPairMessage(100, 50) # ""
    /\ LengthPairMessage(0 - 1, 10) # ""
    /\ LengthPairMessage(50, 100) = ""

C7_Witness ==
    /\ pc = "fetch"
    /\ Len(net) = 2
    /\ loc["min_len"] = 50 /\ loc["max_len"] = 100

\* an empty-result condition has been met: no search result, nothing
\* fetched, or nothing left by the filter
EmptyResult ==
    \/ (HasAttr(loc, "count") /\ ~Truthy(loc["count"]))
    \/ (HasAttr(loc, "records") /\ loc["records"] = <<>>)
    \/ (HasAttr(loc, "filtered") /\ loc["filtered"] = <<>>)

\* C8: output files are written only when the search returned a non-zero
\* count and the filter kept at least one record; a run that meets an
\* empty-result condition writes neither file; the plot is never written
\* unless the CSV was written first.
C8_FilesOnlyForNonEmptyResult ==
    /\ DOMAIN files # {} =>
         /\ HasAttr(loc, "count") /\ Truthy(loc["count"])
         /\ HasAttr(loc, "filtered") /\ loc["filtered"] # <<>>
         /\ CallNames[Len(calls)] \in {"generate_csv", "plot_length_chart"}
    /\ EmptyResult => (DOMAIN files = {} /\ pc \notin {"csv", "plot", "crash"})
    /\ \A name \in DOMAIN files :
         name = PlotName(loc["taxid"]) =>
           /\ CsvName(loc["taxid"]) \in DOMAIN files
           /\ files[CsvName(loc["taxid"])] =
                [header |-> CsvColumns,
                 lines |-> [i \in 1..Len(loc["filtered"]) |-> loc["filtered"][i].items]]

C8_Witness ==
    /\ pc = "exit"
    /\ HasAttr(loc, "filtered")
    /\ loc["filtered"] = <<>>
    /\ Len(loc["records"]) = 2
    /\ DOMAIN files = {}

\* C9: no failure of a pipeline step (search, fetch and parsing, filtering,
\* CSV write, chart write) leaves the step as an exception: the run never
\* ends in an unhandled exception.
C9_NoExceptionEscapes ==
    pc # "crash" /\ last.raised = "none"

=============================================================================
